---- MODULE Spec2Model ----
(***************************************************************************)
(* Model of the Http-Server service (src/main.go): an in-memory item store *)
(* behind three CRUD handlers and a slow diagnostic handler, one goroutine *)
(* per request, and the signal-driven graceful shutdown of main.            *)
(*                                                                         *)
(* A connection slot carries one request.  Each handler is cut into steps  *)
(* at its reads of the request body and its accesses to the datastore map; *)
(* the statements that follow touch only the goroutine's locals and belong *)
(* to the same step.  A map assignment takes two steps, its beginning and  *)
(* its completion; the beginning is taken with the step before it, which   *)
(* only widens the window in which another access overlaps it, and any     *)
(* such access can overlap it under some schedule of the goroutines.       *)
(* The map is not synchronised: an access that overlaps another            *)
(* goroutine's assignment is a data race, which the Go runtime may detect  *)
(* (fatal error, the process dies) or not (the access proceeds); both      *)
(* outcomes are modelled.                                                  *)
(*                                                                         *)
(* Time is counted in seconds by count-down timers.  Handler statements    *)
(* take no time; time passes only while every request in flight sleeps or  *)
(* waits for its body on the network.                                      *)
(***************************************************************************)
EXTENDS Integers, Sequences, FiniteSets, TLC

\* ---------------------------------------------------------------- bounds
\* Number of connections served at the same time.
MaxConns == 2

\* ------------------------------------------------------ program constants
SlowDelay == 10
DrainTimeout == 5
\* A drain timeout above SlowDelay, for the raised-timeout scenario.
RaisedTimeout == 11

StatusOK == 200
StatusCreated == 201
StatusBadRequest == 400
StatusNotFound == 404
StatusConflict == 409

Conns == 1..MaxConns

\* ------------------------------------------------------------ data model
\* type Item struct { ID int; Name string; Age int }
Item(i, n, a) == [ID |-> i, Name |-> n, Age |-> a]

\* The zero value of Item, which Decode starts from (var newItem Item).
ZeroItem == Item(0, "", 0)

Ids == {0, 1}

\* ------------------------------------------------------------------ JSON
\* A JSON text is malformed, the literal null, or an object given by the
\* members it carries; a member's value is a number or a string.
JNum(n) == [t |-> "num", v |-> n]
JStr(s) == [t |-> "str", v |-> s]
JObj(members) == [t |-> "obj", f |-> members]
JNull == [t |-> "null"]
JBad == [t |-> "bad"]
NoBody == [t |-> "none"]

\* The request bodies clients send: whole records, records with members left
\* out, ill-typed members, null and malformed text.
FullBodies ==
    { JObj([id |-> JNum(1), name |-> JStr("Al"), age |-> JNum(30)]),
      JObj([id |-> JNum(1), name |-> JStr("Bo"), age |-> JNum(31)]) }

PartialBodies ==
    { JObj([name |-> JStr("Bo"), age |-> JNum(31)]),
      JObj([id |-> JNum(1)]) }

IllTypedBodies ==
    { JObj([id |-> JStr("1"), name |-> JStr("Al"), age |-> JNum(30)]) }

Bodies == FullBodies \cup PartialBodies \cup IllTypedBodies \cup {JNull, JBad}

\* One member of an object decoded into a struct field of the given JSON
\* type: absent leaves the field as it is, a value of another type is an
\* UnmarshalTypeError.
FieldErr(members, key, type) ==
    key \in DOMAIN members /\ members[key].t # type

FieldVal(members, key, old) ==
    IF key \in DOMAIN members THEN members[key].v ELSE old

\* json.NewDecoder(body).Decode(&item) with item the zero Item.
Decode(b) ==
    CASE b.t = "bad" -> [err |-> TRUE, item |-> ZeroItem]
      [] b.t = "null" -> [err |-> FALSE, item |-> ZeroItem]
      [] b.t = "obj" ->
            IF \/ FieldErr(b.f, "id", "num")
               \/ FieldErr(b.f, "name", "str")
               \/ FieldErr(b.f, "age", "num")
            THEN [err |-> TRUE, item |-> ZeroItem]
            ELSE [err |-> FALSE,
                  item |-> Item(FieldVal(b.f, "id", ZeroItem.ID),
                                FieldVal(b.f, "name", ZeroItem.Name),
                                FieldVal(b.f, "age", ZeroItem.Age))]

\* json.NewEncoder(w).Encode(item): every field is written, under its tag.
Encode(item) ==
    JObj([id |-> JNum(item.ID), name |-> JStr(item.Name), age |-> JNum(item.Age)])

\* ------------------------------------------------------- strconv.Atoi
\* A path segment is a sequence of characters.
Digits == {"0", "1", "2", "3", "4", "5", "6", "7", "8", "9"}

DigitVal(c) ==
    CASE c = "0" -> 0 [] c = "1" -> 1 [] c = "2" -> 2 [] c = "3" -> 3
      [] c = "4" -> 4 [] c = "5" -> 5 [] c = "6" -> 6 [] c = "7" -> 7
      [] c = "8" -> 8 [] c = "9" -> 9

RECURSIVE DigitsVal(_, _)
DigitsVal(s, acc) ==
    IF s = <<>> THEN acc ELSE DigitsVal(Tail(s), acc * 10 + DigitVal(Head(s)))

\* strconv.Atoi: an optional sign, then one or more decimal digits.
Atoi(s) ==
    LET signed == s # <<>> /\ Head(s) \in {"+", "-"}
        ds == IF signed THEN Tail(s) ELSE s
    IN  IF ds = <<>> \/ \E i \in 1..Len(ds) : ds[i] \notin Digits
        THEN [err |-> TRUE, val |-> 0]
        ELSE [err |-> FALSE,
              val |-> IF signed /\ Head(s) = "-" THEN 0 - DigitsVal(ds, 0)
                      ELSE DigitsVal(ds, 0)]

\* The {id} segments clients put in the path.
Paths == { <<"0">>, <<"1">>, <<"1", "x">> }
NoPath == <<>>

\* ------------------------------------------------------------- responses
JsonResp(status, item) == [status |-> status, ctype |-> "json", body |-> Encode(item)]
\* http.Error and fmt.Fprintf write plain text.
TextResp(status, msg) == [status |-> status, ctype |-> "text", body |-> JStr(msg)]
NoResp == [status |-> 0, ctype |-> "none", body |-> NoBody]

\* ------------------------------------------------------------ datastore
\* map[int]Item
EmptyStore == <<>>
Found(store, id) == id \in DOMAIN store

\* Faulty variant: the map is replaced by one holding the new entry alone.
PutFresh(store, id, item) == [k \in {id} |-> item]

Put(store, id, item) ==
    [k \in DOMAIN store \cup {id} |-> IF k = id THEN item ELSE store[k]]

\* ------------------------------------------------------------------ state
VARIABLES
    lifecycle,   \* Starting, Listening, Draining, Stopped, BindFailed, Forced, Crashed
    timeout,     \* the drain timeout main passes to Shutdown
    drainLeft,   \* seconds left of the drain timeout while Draining
    datastore,   \* s.datastore
    writers,     \* connections whose goroutine is inside a map assignment
    kind,        \* per connection: the route of its request
    pc,          \* per connection: the handler's position
    path,        \* per connection: the {id} path segment
    body,        \* per connection: the request body once read
    resp,        \* per connection: the response written
    slowLeft,    \* per connection: seconds left of handleSlow's sleep
    mwLog,       \* per connection: log entries the middleware wrote for its request
    written,     \* history: the ids a create has stored
    listened,    \* history: the listener has bound the port
    recording,   \* whether this specification keeps the history of the updates
    lastUpdate   \* history: per id, the record of the latest update answered 200

vars == <<lifecycle, timeout, drainLeft, datastore, writers, kind, pc, path,
          body, resp, slowLeft, mwLog, written, listened,
          recording, lastUpdate>>

conn == <<kind, pc, path, body, resp, slowLeft, mwLog>>
hist == <<written, listened, recording, lastUpdate>>

Running == lifecycle \in {"Listening", "Draining"}
InFlight(c) == pc[c] \notin {"idle", "done"}
Idle == \A c \in Conns : ~InFlight(c)

\* The operand of the request on connection c.
PathId(c) == Atoi(path[c])
\* The record decoded from the body read on connection c.
newItem(c) == Decode(body[c]).item

\* Faulty variant: the body's id is kept.
updatedItemBodyId(c) == newItem(c)

\* Faulty variant: a member the body leaves out keeps the stored value.
updatedItemMerged(c) ==
    LET old == datastore[PathId(c).val]
        has(key) == body[c].t = "obj" /\ key \in DOMAIN body[c].f
    IN  Item(PathId(c).val,
             IF has("name") THEN newItem(c).Name ELSE old.Name,
             IF has("age") THEN newItem(c).Age ELSE old.Age)

\* updatedItem.ID = id
updatedItem(c) == [newItem(c) EXCEPT !.ID = PathId(c).val]

\* newServer, and main up to the start of the listener goroutine.
Init ==
    /\ lifecycle = "Starting"
    /\ timeout = DrainTimeout
    /\ drainLeft = 0
    /\ datastore = EmptyStore
    /\ writers = {}
    /\ kind = [c \in Conns |-> "none"]
    /\ pc = [c \in Conns |-> "idle"]
    /\ path = [c \in Conns |-> NoPath]
    /\ body = [c \in Conns |-> NoBody]
    /\ resp = [c \in Conns |-> NoResp]
    /\ slowLeft = [c \in Conns |-> 0]
    /\ mwLog = [c \in Conns |-> 0]
    /\ written = {}
    /\ listened = FALSE
    /\ recording = FALSE
    /\ lastUpdate = EmptyStore

\* The handler on connection c returns having written response r.
Respond(c, r) ==
    /\ pc' = [pc EXCEPT ![c] = "done"]
    /\ resp' = [resp EXCEPT ![c] = r]
    /\ path' = [path EXCEPT ![c] = NoPath]
    /\ body' = [body EXCEPT ![c] = NoBody]

\* ------------------------------------------------------------- lifecycle
\* Faulty variant: ListenAndServe binds although Shutdown has been called.
ListenLate ==
    /\ lifecycle \in {"Starting", "Draining"}
    /\ lifecycle' = "Listening"
    /\ listened' = TRUE
    /\ UNCHANGED <<timeout, drainLeft, datastore, writers, conn, written,
                   recording, lastUpdate>>

\* srv.ListenAndServe binds the port and starts accepting.
Listen ==
    /\ lifecycle = "Starting"
    /\ lifecycle' = "Listening"
    /\ listened' = TRUE
    /\ UNCHANGED <<timeout, drainLeft, datastore, writers, conn, written,
                   recording, lastUpdate>>

\* srv.ListenAndServe fails to bind: logger.Fatalf("Cannot start server").
BindFailure ==
    /\ lifecycle = "Starting"
    /\ lifecycle' = "BindFailed"
    /\ UNCHANGED <<timeout, drainLeft, datastore, writers, conn, hist>>

\* Faulty variant: the context is given the slow handler's delay as timeout.
SignalSlowDelay ==
    /\ lifecycle \in {"Starting", "Listening"}
    /\ lifecycle' = "Draining"
    /\ drainLeft' = SlowDelay
    /\ UNCHANGED <<timeout, datastore, writers, conn, hist>>

\* <-quit returns; main calls srv.Shutdown(ctx) with the timeout: the listener
\* is closed and the wait for the active connections begins.  The signal can
\* come before the listener goroutine has bound the port.
Signal ==
    /\ lifecycle \in {"Starting", "Listening"}
    /\ lifecycle' = "Draining"
    /\ drainLeft' = timeout
    /\ UNCHANGED <<timeout, datastore, writers, conn, hist>>

\* Faulty variant: the server is closed without waiting for its connections.
ShutdownNoWait ==
    /\ lifecycle = "Draining"
    /\ lifecycle' = "Stopped"
    /\ UNCHANGED <<timeout, drainLeft, datastore, writers, conn, hist>>

\* srv.Shutdown returns nil once no connection is active: "Server exited
\* gracefully", main returns.
ShutdownClean ==
    /\ lifecycle = "Draining"
    /\ Idle
    /\ lifecycle' = "Stopped"
    /\ UNCHANGED <<timeout, drainLeft, datastore, writers, conn, hist>>

\* ctx expires: srv.Shutdown returns ctx.Err(), logger.Fatalf("Server forced
\* to shutdown").
ShutdownForced ==
    /\ lifecycle = "Draining"
    /\ drainLeft = 0
    /\ lifecycle' = "Forced"
    /\ UNCHANGED <<timeout, drainLeft, datastore, writers, conn, hist>>

\* The place of a lifecycle state in the order of main: the process has
\* terminated in every state after Draining.
Rank(l) ==
    CASE l = "Starting" -> 0
      [] l = "Listening" -> 1
      [] l = "Draining" -> 2
      [] OTHER -> 3

\* The exit code of the process once it has terminated.
ExitCode ==
    CASE lifecycle = "Stopped" -> 0
      [] lifecycle \in {"BindFailed", "Forced"} -> 1
      [] lifecycle = "Crashed" -> 2
      [] OTHER -> -1

\* ----------------------------------------------------------- connections
Routes == {"create", "get", "put", "slow"}

\* The middleware stack of the router: chi.NewRouter() and the four routes,
\* with no call of router.Use.
Middlewares == <<>>

\* The log entries a middleware stack writes for one request: one for each
\* logging middleware on it.
LogEntries(stack) == Cardinality({i \in DOMAIN stack : stack[i] = "logging"})

\* Faulty variant: the listener is still open while the server drains.
AcceptWhileDraining(c, k, p) ==
    /\ Running
    /\ pc[c] = "idle"
    /\ kind' = [kind EXCEPT ![c] = k]
    /\ path' = [path EXCEPT ![c] = IF k \in {"get", "put"} THEN p ELSE NoPath]
    /\ pc' = [pc EXCEPT ![c] = "start"]
    /\ mwLog' = [mwLog EXCEPT ![c] = LogEntries(Middlewares)]
    /\ UNCHANGED <<lifecycle, timeout, drainLeft, datastore, writers, body, resp,
                   slowLeft, hist>>

\* The server accepts a connection and routes its request (s.routes).
Accept(c, k, p) ==
    /\ lifecycle = "Listening"
    /\ pc[c] = "idle"
    /\ kind' = [kind EXCEPT ![c] = k]
    /\ path' = [path EXCEPT ![c] = IF k \in {"get", "put"} THEN p ELSE NoPath]
    /\ pc' = [pc EXCEPT ![c] = "start"]
    /\ mwLog' = [mwLog EXCEPT ![c] = LogEntries(Middlewares)]
    /\ UNCHANGED <<lifecycle, timeout, drainLeft, datastore, writers, body, resp,
                   slowLeft, hist>>

\* The client has its response; the connection is closed and its slot freed.
Close(c) ==
    /\ Running
    /\ pc[c] = "done"
    /\ kind' = [kind EXCEPT ![c] = "none"]
    /\ pc' = [pc EXCEPT ![c] = "idle"]
    /\ resp' = [resp EXCEPT ![c] = NoResp]
    /\ mwLog' = [mwLog EXCEPT ![c] = 0]
    /\ UNCHANGED <<lifecycle, timeout, drainLeft, datastore, writers, path, body,
                   slowLeft, hist>>

\* -------------------------------------------------------------- handlers
\* What no handler step changes.
HandlerFrame == UNCHANGED <<lifecycle, timeout, drainLeft, kind, mwLog>>

At(c, k, p) == Running /\ kind[c] = k /\ pc[c] = p

\* The handler on connection c goes on to position p.
Continue(c, p) ==
    /\ pc' = [pc EXCEPT ![c] = p]
    /\ UNCHANGED <<resp, path>>

\* handleCreateItem: the body is read and decoded; an undecodable body is
\* answered 400.
handleCreateItemDecode(c, b) ==
    /\ At(c, "create", "start")
    /\ IF Decode(b).err
       THEN Respond(c, TextResp(StatusBadRequest, "Bad request: invalid JSON"))
       ELSE /\ Continue(c, "check")
            /\ body' = [body EXCEPT ![c] = b]
    /\ HandlerFrame
    /\ UNCHANGED <<datastore, writers, slowLeft, hist>>

\* The goroutine on connection c enters the assignment s.datastore[id] = item.
BeginAssign(c) ==
    /\ writers' = writers \cup {c}
    /\ pc' = [pc EXCEPT ![c] = "assigning"]
    /\ UNCHANGED <<resp, path>>

\* Faulty variant: no duplicate check, the assignment always begins.
handleCreateItemNoCheck(c) ==
    /\ At(c, "create", "check")
    /\ BeginAssign(c) /\ UNCHANGED body
    /\ HandlerFrame
    /\ UNCHANGED <<datastore, slowLeft, hist>>

\* Faulty variant: a duplicate id is answered 409 after the record is stored.
handleCreateItemStoresDuplicate(c) ==
    /\ At(c, "create", "check")
    /\ IF Found(datastore, newItem(c).ID)
       THEN /\ Respond(c, TextResp(StatusConflict, "Error: ID already in use"))
            /\ datastore' = Put(datastore, newItem(c).ID, newItem(c))
            /\ UNCHANGED writers
       ELSE BeginAssign(c) /\ UNCHANGED <<body, datastore>>
    /\ HandlerFrame
    /\ UNCHANGED <<slowLeft, hist>>

\* handleCreateItem: _, found := s.datastore[newItem.ID]; a duplicate id is
\* answered 409, otherwise the assignment begins.
handleCreateItemCheck(c) ==
    /\ At(c, "create", "check")
    /\ IF Found(datastore, newItem(c).ID)
       THEN Respond(c, TextResp(StatusConflict, "Error: ID already in use"))
            /\ UNCHANGED writers
       ELSE BeginAssign(c) /\ UNCHANGED body
    /\ HandlerFrame
    /\ UNCHANGED <<datastore, slowLeft, hist>>

\* Faulty variant: w.WriteHeader(http.StatusCreated) is left out.
handleCreateItemNoHeader(c) ==
    /\ At(c, "create", "assigning")
    /\ datastore' = Put(datastore, newItem(c).ID, newItem(c))
    /\ writers' = writers \ {c}
    /\ Respond(c, JsonResp(StatusOK, newItem(c)))
    /\ written' = written \cup {newItem(c).ID}
    /\ HandlerFrame
    /\ UNCHANGED <<slowLeft, listened, recording, lastUpdate>>

\* handleCreateItem: s.datastore[newItem.ID] = newItem completes, and the item
\* is answered with 201.
handleCreateItemAssign(c) ==
    /\ At(c, "create", "assigning")
    /\ datastore' = Put(datastore, newItem(c).ID, newItem(c))
    /\ writers' = writers \ {c}
    /\ Respond(c, JsonResp(StatusCreated, newItem(c)))
    /\ written' = written \cup {newItem(c).ID}
    /\ HandlerFrame
    /\ UNCHANGED <<slowLeft, listened, recording, lastUpdate>>

\* Faulty variant: found is ignored, an absent id is answered with the zero
\* Item the map lookup yields.
handleGetItemIgnoresFound(c) ==
    /\ At(c, "get", "start")
    /\ IF PathId(c).err
       THEN Respond(c, TextResp(StatusBadRequest, "Invalid item ID"))
       ELSE IF ~Found(datastore, PathId(c).val)
       THEN Respond(c, JsonResp(StatusOK, ZeroItem))
       ELSE Respond(c, JsonResp(StatusOK, datastore[PathId(c).val]))
    /\ HandlerFrame
    /\ UNCHANGED <<datastore, writers, slowLeft, hist>>

\* handleGetItem: strconv.Atoi of the path id, then the lookup.
handleGetItem(c) ==
    /\ At(c, "get", "start")
    /\ IF PathId(c).err
       THEN Respond(c, TextResp(StatusBadRequest, "Invalid item ID"))
       ELSE IF ~Found(datastore, PathId(c).val)
       THEN Respond(c, TextResp(StatusNotFound, "Item not found"))
       ELSE Respond(c, JsonResp(StatusOK, datastore[PathId(c).val]))
    /\ HandlerFrame
    /\ UNCHANGED <<datastore, writers, slowLeft, hist>>

\* Faulty variant: no existence check.
handleChangeItemNoCheck(c) ==
    /\ At(c, "put", "start")
    /\ IF PathId(c).err
       THEN Respond(c, TextResp(StatusBadRequest, "Invalid item ID"))
       ELSE Continue(c, "decode") /\ UNCHANGED body
    /\ HandlerFrame
    /\ UNCHANGED <<datastore, writers, slowLeft, hist>>

\* handleChangeItem: strconv.Atoi of the path id, then the existence check.
handleChangeItemCheck(c) ==
    /\ At(c, "put", "start")
    /\ IF PathId(c).err
       THEN Respond(c, TextResp(StatusBadRequest, "Invalid item ID"))
       ELSE IF ~Found(datastore, PathId(c).val)
       THEN Respond(c, TextResp(StatusNotFound, "Item not found"))
       ELSE Continue(c, "decode") /\ UNCHANGED body
    /\ HandlerFrame
    /\ UNCHANGED <<datastore, writers, slowLeft, hist>>

\* handleChangeItem: the body is read and decoded; an undecodable body is
\* answered 400, otherwise the assignment begins.
handleChangeItemDecode(c, b) ==
    /\ At(c, "put", "decode")
    /\ IF Decode(b).err
       THEN Respond(c, TextResp(StatusBadRequest, "Bad request: invalid JSON"))
            /\ UNCHANGED writers
       ELSE /\ BeginAssign(c)
            /\ body' = [body EXCEPT ![c] = b]
    /\ HandlerFrame
    /\ UNCHANGED <<datastore, slowLeft, hist>>

\* handleChangeItem: s.datastore[id] = updatedItem completes, and the item is
\* answered with 200.
handleChangeItemAssign(c) ==
    /\ At(c, "put", "assigning")
    /\ datastore' = Put(datastore, PathId(c).val, updatedItem(c))
    /\ writers' = writers \ {c}
    /\ Respond(c, JsonResp(StatusOK, updatedItem(c)))
    /\ lastUpdate' = IF recording
                     THEN Put(lastUpdate, PathId(c).val, updatedItem(c))
                     ELSE lastUpdate
    /\ HandlerFrame
    /\ UNCHANGED <<slowLeft, written, listened, recording>>

\* handleSlow: time.Sleep(10 * time.Second) begins.
handleSlowSleep(c) ==
    /\ At(c, "slow", "start")
    /\ Continue(c, "sleep") /\ UNCHANGED body
    /\ slowLeft' = [slowLeft EXCEPT ![c] = SlowDelay]
    /\ HandlerFrame
    /\ UNCHANGED <<datastore, writers, hist>>

\* handleSlow: the sleep is over, "Finally, I am done." is written.
handleSlowDone(c) ==
    /\ At(c, "slow", "sleep")
    /\ slowLeft[c] = 0
    /\ Respond(c, TextResp(StatusOK, "Finally, I am done."))
    /\ HandlerFrame
    /\ UNCHANGED <<datastore, writers, slowLeft, hist>>

\* The handler on connection c is at an access to the datastore map.
AtMapAccess(c) ==
    \/ kind[c] = "create" /\ pc[c] \in {"check", "assigning"}
    \/ kind[c] = "put" /\ pc[c] = "assigning"
    \/ kind[c] \in {"get", "put"} /\ pc[c] = "start" /\ ~PathId(c).err

\* The runtime finds the map being written by another goroutine ("concurrent
\* map writes", "concurrent map read and map write"): the process dies.
RaceCrash(c) ==
    /\ Running
    /\ AtMapAccess(c)
    /\ writers \ {c} # {}
    /\ lifecycle' = "Crashed"
    /\ UNCHANGED <<timeout, drainLeft, datastore, writers, conn, hist>>

\* ------------------------------------------------------------------ time
Sleeping(c) == pc[c] = "sleep"
\* A handler blocked on the network: reading the request body.
AwaitingBody(c) ==
    \/ kind[c] = "create" /\ pc[c] = "start"
    \/ kind[c] = "put" /\ pc[c] = "decode"

\* One second passes.  Handler statements take no time, a sleeper wakes when
\* its sleep is over, Shutdown returns when its context expires, and its poll
\* (at most 500 ms apart) sees idle connections within the second.
Tick ==
    /\ Running
    /\ \A c \in Conns : InFlight(c) =>
            \/ Sleeping(c) /\ slowLeft[c] > 0
            \/ AwaitingBody(c)
    /\ lifecycle = "Draining" => drainLeft > 0 /\ ~Idle
    /\ lifecycle = "Draining" \/ \E c \in Conns : Sleeping(c)
    /\ slowLeft' = [c \in Conns |-> IF Sleeping(c) THEN slowLeft[c] - 1 ELSE slowLeft[c]]
    /\ drainLeft' = IF lifecycle = "Draining" THEN drainLeft - 1 ELSE drainLeft
    /\ UNCHANGED <<lifecycle, timeout, datastore, writers, kind, pc, path, body,
                   resp, mwLog, hist>>

\* ----------------------------------------------------------- specification
Next ==
    \/ Listen
    \/ BindFailure
    \/ Signal
    \/ ShutdownClean
    \/ ShutdownForced
    \/ Tick
    \/ \E c \in Conns :
        \/ \E k \in Routes, p \in Paths : Accept(c, k, p)
        \/ Close(c)
        \/ \E b \in Bodies : handleCreateItemDecode(c, b)
        \/ handleCreateItemCheck(c)
        \/ handleCreateItemAssign(c)
        \/ handleGetItem(c)
        \/ handleChangeItemCheck(c)
        \/ \E b \in Bodies : handleChangeItemDecode(c, b)
        \/ handleChangeItemAssign(c)
        \/ handleSlowSleep(c)
        \/ handleSlowDone(c)
        \/ RaceCrash(c)

Spec == Init /\ [][Next]_vars

\* The same program with the drain timeout either as written or raised above
\* the slow handler's delay.
InitTimeouts ==
    /\ timeout \in {DrainTimeout, RaisedTimeout}
    /\ lifecycle = "Starting"
    /\ drainLeft = 0
    /\ datastore = EmptyStore
    /\ writers = {}
    /\ kind = [c \in Conns |-> "none"]
    /\ pc = [c \in Conns |-> "idle"]
    /\ path = [c \in Conns |-> NoPath]
    /\ body = [c \in Conns |-> NoBody]
    /\ resp = [c \in Conns |-> NoResp]
    /\ slowLeft = [c \in Conns |-> 0]
    /\ mwLog = [c \in Conns |-> 0]
    /\ written = {}
    /\ listened = FALSE
    /\ recording = FALSE
    /\ lastUpdate = EmptyStore

SpecTimeouts == InitTimeouts /\ [][Next]_vars

\* The same program with the history of the updates kept: lastUpdate holds,
\* for each id, the record of the latest update that was answered 200.
InitUpdates ==
    /\ recording = TRUE
    /\ lifecycle = "Starting"
    /\ timeout = DrainTimeout
    /\ drainLeft = 0
    /\ datastore = EmptyStore
    /\ writers = {}
    /\ kind = [c \in Conns |-> "none"]
    /\ pc = [c \in Conns |-> "idle"]
    /\ path = [c \in Conns |-> NoPath]
    /\ body = [c \in Conns |-> NoBody]
    /\ resp = [c \in Conns |-> NoResp]
    /\ slowLeft = [c \in Conns |-> 0]
    /\ mwLog = [c \in Conns |-> 0]
    /\ written = {}
    /\ listened = FALSE
    /\ lastUpdate = EmptyStore

SpecUpdates == InitUpdates /\ [][Next]_vars

\* A step of the handler on connection c that waits for nothing but the
\* processor: every step but the reads of the body, which wait for the client.
HandlerStep(c) ==
    \/ handleCreateItemCheck(c)
    \/ handleCreateItemAssign(c)
    \/ handleGetItem(c)
    \/ handleChangeItemCheck(c)
    \/ handleChangeItemAssign(c)
    \/ handleSlowSleep(c)
    \/ handleSlowDone(c)

\* The program under a fair scheduler: time passes, a goroutine that can run
\* does run, and srv.Shutdown returns when it can.  Nothing is assumed of the
\* clients or of the signal.
SpecFair ==
    /\ Spec
    /\ WF_vars(Tick)
    /\ WF_vars(ShutdownClean)
    /\ WF_vars(ShutdownForced)
    /\ \A c \in Conns : WF_vars(HandlerStep(c))

\* ------------------------------------------------------------ properties
\* The handler on connection c returns in this step.
Returns(c) == pc[c] # "done" /\ pc'[c] = "done"

\* The handler of route k on connection c returns in this step with status st.
Answers(c, k, st) == kind[c] = k /\ Returns(c) /\ resp'[c].status = st

\* The item a JSON response carries.
RespItem(r) == Decode(r.body).item

\* C1: a create request with a decodable body r whose id is not a key of the
\* store when the handler looks it up is answered 201 with a JSON body that
\* carries exactly r, and r is what the store holds at r.id when it returns.
C1_CreateEchoesStored ==
    [][\A c \in Conns :
        /\ (kind[c] = "create" /\ pc[c] = "check" /\ pc'[c] # pc[c]
                /\ ~Found(datastore, newItem(c).ID))
            => pc'[c] = "assigning"
        /\ (kind[c] = "create" /\ pc[c] = "assigning" /\ pc'[c] # pc[c])
            => /\ ~Decode(body[c]).err
               /\ resp'[c].status = StatusCreated
               /\ resp'[c].ctype = "json"
               /\ Decode(resp'[c].body) = [err |-> FALSE, item |-> newItem(c)]
               /\ Found(datastore', newItem(c).ID)
               /\ datastore'[newItem(c).ID] = newItem(c)
      ]_vars

\* A create has been answered 201 with the record it was sent with members
\* left out.
C1_Witness ==
    \E c \in Conns :
        /\ kind[c] = "create" /\ pc[c] = "done"
        /\ resp[c] = JsonResp(StatusCreated, Item(1, "", 0))
        /\ datastore[1] = Item(1, "", 0)

\* C2: once a create of r has been answered 201, a read of r.id returns 200
\* and exactly r until an update of that id is answered: a read of a stored id
\* returns 200 with the stored item, and the item stored at an id changes only
\* in the step in which an update of that id is answered 200.
C2_ReadReturnsCreated ==
    [][/\ \A c \in Conns :
            (kind[c] = "get" /\ Returns(c) /\ ~PathId(c).err
                    /\ Found(datastore, PathId(c).val))
                => resp'[c] = JsonResp(StatusOK, datastore[PathId(c).val])
       /\ \A id \in Ids :
            (Found(datastore, id)
                    /\ (~Found(datastore', id) \/ datastore'[id] # datastore[id]))
                => \E c \in Conns :
                        Answers(c, "put", StatusOK) /\ PathId(c).val = id
      ]_vars

\* C3: a create whose id a create answered 201 has stored before is answered
\* 409, and the store is left as it was, whatever the name and age sent.
C3_DuplicateCreateConflicts ==
    [][\A c \in Conns :
        (kind[c] = "create" /\ pc[c] = "check" /\ pc'[c] # pc[c]
                /\ newItem(c).ID \in written)
            => /\ Returns(c)
               /\ resp'[c].status = StatusConflict
               /\ datastore' = datastore
      ]_vars

\* A create has been answered 409 while the store holds another record at
\* its id than any the refused create could have carried.
C3_Witness ==
    \E c \in Conns :
        /\ kind[c] = "create" /\ pc[c] = "done"
        /\ resp[c].status = StatusConflict
        /\ Found(datastore, 0)
        /\ ~Found(datastore, 1)
        /\ datastore[0] = Item(0, "Bo", 31)

\* C4: of the create requests in service at the same time that carry the
\* same id, at most one is answered 201.
C4_OneCreatePerId ==
    \A c1, c2 \in Conns :
        (/\ c1 # c2
         /\ kind[c1] = "create" /\ pc[c1] = "done"
         /\ resp[c1].status = StatusCreated
         /\ kind[c2] = "create" /\ pc[c2] = "done"
         /\ resp[c2].status = StatusCreated)
            => RespItem(resp[c1]).ID # RespItem(resp[c2]).ID

\* C5: a read of an integer id that no create has stored is answered 404.
C5_ReadUnwrittenNotFound ==
    [][\A c \in Conns :
        (kind[c] = "get" /\ Returns(c) /\ ~PathId(c).err
                /\ PathId(c).val \notin written)
            => resp'[c] = TextResp(StatusNotFound, "Item not found")
      ]_vars

\* A read has been answered 404 after an update and a create of other ids
\* or of the same id were refused or served: the store is not empty.
C5_Witness ==
    \E c \in Conns :
        /\ kind[c] = "get" /\ pc[c] = "done"
        /\ resp[c].status = StatusNotFound
        /\ written = {1}
        /\ \E d \in Conns : kind[d] = "put" /\ pc[d] = "done"
                                /\ resp[d].status = StatusNotFound

\* C6: an update of an id that is not a key of the store is answered 404 and
\* leaves the store as it was, and no step of an update handler changes the
\* set of keys of the store.
C6_UpdateNeverInserts ==
    [][\A c \in Conns :
        /\ (kind[c] = "put" /\ pc[c] = "start" /\ pc'[c] # pc[c]
                /\ ~PathId(c).err /\ ~Found(datastore, PathId(c).val))
            => /\ resp'[c] = TextResp(StatusNotFound, "Item not found")
               /\ datastore' = datastore
        /\ (kind[c] = "put" /\ pc'[c] # pc[c])
            => DOMAIN datastore' = DOMAIN datastore
      ]_vars

\* An update of an absent id has been answered 404 while another id is stored.
C6_Witness ==
    \E c \in Conns :
        /\ kind[c] = "put" /\ pc[c] = "done"
        /\ resp[c] = TextResp(StatusNotFound, "Item not found")
        /\ DOMAIN datastore = {0}

\* C7: an update that succeeds stores the record of its body under the path
\* id with the id field set to the path id, echoes that record with 200, and
\* when the body id differs from the path id leaves the entry at the body id,
\* present or absent, as it was.
C7_PathIdWins ==
    [][\A c \in Conns :
        (kind[c] = "put" /\ pc[c] = "assigning" /\ pc'[c] # pc[c])
            => LET id == PathId(c).val
                   sent == newItem(c)
                   stored == Item(id, sent.Name, sent.Age)
               IN  /\ resp'[c] = JsonResp(StatusOK, stored)
                   /\ Found(datastore', id)
                   /\ datastore'[id] = stored
                   /\ sent.ID # id =>
                        /\ Found(datastore', sent.ID) <=> Found(datastore, sent.ID)
                        /\ Found(datastore, sent.ID) =>
                                datastore'[sent.ID] = datastore[sent.ID]
      ]_vars

\* An update on path id 0 has echoed the record of a body whose id is 1 (the
\* only body named "Al" carries id 1), with id 0, and the store holds it at 0.
C7_Witness ==
    \E c \in Conns :
        /\ kind[c] = "put" /\ pc[c] = "done"
        /\ resp[c] = JsonResp(StatusOK, Item(0, "Al", 30))
        /\ datastore[0] = Item(0, "Al", 30)
        /\ Found(datastore, 1)

\* C8: the set of keys of the store never shrinks, and a key is added only
\* in the step in which a create of that id is answered 201.
C8_KeysOnlyGrow ==
    [][/\ DOMAIN datastore \subseteq DOMAIN datastore'
       /\ \A id \in DOMAIN datastore' \ DOMAIN datastore :
            \E c \in Conns :
                /\ Answers(c, "create", StatusCreated)
                /\ RespItem(resp'[c]).ID = id
      ]_vars

\* Both ids are stored, one of them updated since.
C8_Witness ==
    /\ DOMAIN datastore = {0, 1}
    /\ \E c \in Conns : kind[c] = "put" /\ pc[c] = "done"
                            /\ resp[c].status = StatusOK

\* C9: the process exits by the normal path ("Server exited gracefully",
\* exit code 0) only when no accepted request is still in flight.
C9_CleanExitOnlyWhenIdle ==
    lifecycle = "Stopped" => \A c \in Conns : ~InFlight(c)

\* The clean exit has been reached after a slow request that was in flight
\* at the signal completed during the drain.
C9_Witness ==
    /\ lifecycle = "Stopped"
    /\ drainLeft < timeout
    /\ \E c \in Conns : kind[c] = "slow" /\ pc[c] = "done"

\* The seconds a slow request in flight still needs.
SlowNeeds(c) == IF pc[c] = "start" THEN SlowDelay ELSE slowLeft[c]
SlowInFlight(c) == kind[c] = "slow" /\ InFlight(c)

\* A slow request in flight needs more time than the drain has left.
SlowOutlastsDrain ==
    /\ lifecycle = "Draining"
    /\ \E c \in Conns : SlowInFlight(c) /\ SlowNeeds(c) > drainLeft

\* C10: with the drain timeout of 5 seconds, a signal received while a slow
\* request in flight has more than 5 of its 10 seconds to go leaves a request
\* that outlasts the drain, and once a slow request outlasts the drain the
\* process never exits cleanly: it stays so until the shutdown is forced
\* (exit code 1) or the process dies.  With the timeout raised above 10
\* seconds no slow request ever outlasts the drain: a forced shutdown leaves
\* no slow request in flight, and the drain has always more left than any
\* slow request needs.
C10_SlowRequestAndDrainTimeout ==
    [][/\ (/\ lifecycle = "Listening" /\ lifecycle' = "Draining"
           /\ timeout = DrainTimeout
           /\ \E c \in Conns : SlowInFlight(c) /\ SlowNeeds(c) > DrainTimeout)
            => SlowOutlastsDrain'
       /\ SlowOutlastsDrain
            => \/ SlowOutlastsDrain'
               \/ lifecycle' = "Forced" /\ ExitCode' = 1
               \/ lifecycle' = "Crashed"
       /\ timeout = RaisedTimeout
            => /\ ~SlowOutlastsDrain'
               /\ lifecycle' = "Draining" =>
                    \A c \in Conns : SlowInFlight(c)' => SlowNeeds(c)' < drainLeft'
               /\ lifecycle' = "Forced" =>
                    \A c \in Conns : ~SlowInFlight(c)'
      ]_vars

\* The 5 second drain has been forced while a slow request that began its
\* sleep just before the signal has 5 seconds to go.
C10_Witness ==
    /\ timeout = DrainTimeout
    /\ lifecycle = "Forced"
    /\ \E c \in Conns : kind[c] = "slow" /\ pc[c] = "sleep"
                            /\ slowLeft[c] = SlowDelay - DrainTimeout

\* With the raised timeout the process has exited cleanly after a slow request
\* that began its sleep just before the signal completed.
C10_RaisedWitness ==
    /\ timeout = RaisedTimeout
    /\ lifecycle = "Stopped"
    /\ drainLeft = RaisedTimeout - SlowDelay
    /\ \E c \in Conns : kind[c] = "slow" /\ pc[c] = "done"

\* C11: once the termination signal has been received no new request is
\* accepted: a connection that is idle stays idle.  The signal itself touches
\* no request, and while the server drains a request in flight is never
\* dropped: it stays in flight on its route or returns with its response.
C11_NoAcceptAfterSignal ==
    [][/\ lifecycle \notin {"Starting", "Listening"} =>
            \A c \in Conns : pc[c] = "idle" => pc'[c] = "idle" /\ kind'[c] = "none"
       /\ (lifecycle = "Listening" /\ lifecycle' = "Draining") => UNCHANGED conn
       /\ lifecycle = "Draining" =>
            \A c \in Conns : InFlight(c) =>
                /\ kind'[c] = kind[c]
                /\ InFlight(c)' \/ (pc'[c] = "done" /\ resp'[c] # NoResp)
      ]_vars

\* The server is draining, time has passed since the signal, and every
\* connection holds the answer of a create or an update that stored its
\* record: the one in flight when the time passed has completed since.
C11_Witness ==
    /\ lifecycle = "Draining"
    /\ drainLeft < timeout
    /\ \A c \in Conns :
            /\ pc[c] = "done"
            /\ \/ kind[c] = "create" /\ resp[c].status = StatusCreated
               \/ kind[c] = "put" /\ resp[c].status = StatusOK

\* C12: every request that has been answered has passed through the logging
\* middleware exactly once: the middleware has written one entry for it.
C12_LoggedExactlyOnce ==
    \A c \in Conns : pc[c] = "done" => mwLog[c] = 1

\* C13: no client request, and no combination of concurrent client requests,
\* terminates the process: once it has terminated it has done so by the clean
\* exit, by the bind failure or by the forced shutdown.
C13_ClientsNeverTerminate ==
    lifecycle \notin {"Starting", "Listening", "Draining"}
        => lifecycle \in {"Stopped", "BindFailed", "Forced"}

\* C14: the store changes only in the step in which a create is answered 201
\* or an update is answered 200, and then only at the id that request stores;
\* a step in which a request returns with any other answer (a read, a slow
\* request, a create or update answered 400, 404 or 409) leaves the whole
\* store as it was.
C14_StoreFrame ==
    [][/\ datastore' # datastore =>
            \E c \in Conns :
                /\ \/ Answers(c, "create", StatusCreated)
                   \/ Answers(c, "put", StatusOK)
                /\ \A k \in DOMAIN datastore :
                        k # RespItem(resp'[c]).ID => datastore'[k] = datastore[k]
       /\ \A c \in Conns :
            (Returns(c) /\ ~Answers(c, "create", StatusCreated)
                        /\ ~Answers(c, "put", StatusOK))
                => datastore' = datastore
      ]_vars

\* A create has been answered 409 and an update 400 for its body, and the
\* store holds the one record it held before them.
C14_Witness ==
    /\ Cardinality(DOMAIN datastore) = 1
    /\ \E c, d \in Conns :
            /\ kind[c] = "create" /\ pc[c] = "done"
            /\ resp[c].status = StatusConflict
            /\ kind[d] = "put" /\ pc[d] = "done"
            /\ resp[d] = TextResp(StatusBadRequest, "Bad request: invalid JSON")

\* C15: an update checks its failures in a fixed order.  Its first step, taken
\* before any of the body is read, answers 400 for an unparsable path id,
\* otherwise 404 for an id the store does not hold, whatever the body is; only
\* for an id the store holds does it go on to read the body, and only there is
\* an undecodable body answered 400.
C15_UpdateFailureOrder ==
    [][\A c \in Conns : kind[c] = "put" =>
        /\ (pc[c] = "start" /\ pc'[c] # pc[c]) =>
            /\ body[c] = NoBody /\ body'[c] = NoBody
            /\ IF PathId(c).err
               THEN /\ pc'[c] = "done"
                    /\ resp'[c] = TextResp(StatusBadRequest, "Invalid item ID")
               ELSE IF ~Found(datastore, PathId(c).val)
               THEN /\ pc'[c] = "done"
                    /\ resp'[c] = TextResp(StatusNotFound, "Item not found")
               ELSE pc'[c] = "decode" /\ resp'[c] = NoResp
        /\ pc[c] = "decode" =>
            /\ ~PathId(c).err /\ Found(datastore, PathId(c).val)
            /\ pc'[c] = "done" =>
                    resp'[c] = TextResp(StatusBadRequest, "Bad request: invalid JSON")
            /\ pc'[c] \notin {"decode", "done"} =>
                    pc'[c] = "assigning" /\ ~Decode(body'[c]).err
        /\ (Returns(c) /\ resp'[c].body = JStr("Bad request: invalid JSON")) =>
                pc[c] = "decode"
      ]_vars

\* One update has been answered 404 for an absent id and another 400 for the
\* undecodable body it sent for a stored id.
C15_Witness ==
    \E c, d \in Conns :
        /\ kind[c] = "put" /\ pc[c] = "done"
        /\ resp[c] = TextResp(StatusNotFound, "Item not found")
        /\ kind[d] = "put" /\ pc[d] = "done"
        /\ resp[d] = TextResp(StatusBadRequest, "Bad request: invalid JSON")

\* C16: an update answered 200 replaces the whole record: the record the store
\* holds at the path id afterwards has the name and the age the body carries,
\* the empty name and the age 0 for a member the body leaves out, whatever the
\* record held before; the store has the same keys, and the record at every
\* other id is the one it was.
C16_UpdateReplacesWhole ==
    [][\A c \in Conns : Answers(c, "put", StatusOK) =>
        LET id == PathId(c).val
            sent == body[c]
            has(key) == sent.t = "obj" /\ key \in DOMAIN sent.f
            name == IF has("name") THEN sent.f.name.v ELSE ""
            age == IF has("age") THEN sent.f.age.v ELSE 0
        IN  /\ datastore'[id] = Item(id, name, age)
            /\ DOMAIN datastore' = DOMAIN datastore
            /\ \A k \in DOMAIN datastore \ {id} : datastore'[k] = datastore[k]
      ]_vars

\* A create of id 1 named "Al" still shows its 201, an update of id 1 with a
\* body that carries neither name nor age has been answered since, and the
\* store holds the record with the empty name and age 0 at 1, next to the
\* record at 0.
C16_Witness ==
    /\ Found(datastore, 0)
    /\ Found(datastore, 1) /\ datastore[1] = Item(1, "", 0)
    /\ \E c, d \in Conns :
            /\ kind[c] = "create" /\ pc[c] = "done"
            /\ resp[c] = JsonResp(StatusCreated, Item(1, "Al", 30))
            /\ kind[d] = "put" /\ pc[d] = "done"
            /\ resp[d] = JsonResp(StatusOK, Item(1, "", 0))

\* What C17 says of every step other than the entry into Draining: the
\* lifecycle state changes only forward in the order Starting, Listening,
\* Draining, terminated, so no state is entered again; Stopped is entered
\* only from Draining and never left; the bind failure is entered only from
\* Starting, with the listener never bound, is never left and is a non-zero
\* exit.
LifecycleForward ==
    /\ lifecycle' # lifecycle => Rank(lifecycle') > Rank(lifecycle)
    /\ (lifecycle' = "Listening" /\ lifecycle # "Listening") => lifecycle = "Starting"
    /\ (lifecycle' = "Stopped" /\ lifecycle # "Stopped") => lifecycle = "Draining"
    /\ lifecycle = "Stopped" => (lifecycle' = "Stopped" /\ ExitCode' = 0)
    /\ (lifecycle' = "BindFailed" /\ lifecycle # "BindFailed") =>
            lifecycle = "Starting" /\ ~listened' /\ ExitCode' > 0
    /\ lifecycle = "BindFailed" => lifecycle' = "BindFailed"
    /\ listened' => lifecycle' # "Starting"

\* C17 as stated: the lifecycle only moves forward, and Draining is entered
\* only from Listening.
C17_DrainingOnlyFromListening ==
    [][/\ LifecycleForward
       /\ (lifecycle' = "Draining" /\ lifecycle # "Draining")
            => lifecycle = "Listening"
      ]_vars

\* C17, amended: the lifecycle only moves forward, and Draining is entered
\* only on the signal, with the drain timeout armed, from Listening or, when
\* the signal comes before the listener has bound the port, from Starting.
C17_LifecycleOnlyForward ==
    [][/\ LifecycleForward
       /\ (lifecycle' = "Draining" /\ lifecycle # "Draining") =>
            /\ lifecycle \in {"Starting", "Listening"}
            /\ drainLeft' = timeout
            /\ lifecycle = "Starting" <=> ~listened
      ]_vars

\* The process has exited cleanly without the listener ever having bound the
\* port: the signal came in Starting.
C17_Witness ==
    lifecycle = "Stopped" /\ ~listened

\* The process has terminated.
Terminated == lifecycle \notin {"Starting", "Listening", "Draining"}

\* Under the fair scheduler a draining process terminates, and the drain never
\* lasts longer than its timeout: a handler that is stuck or slow does not
\* keep the process alive.
DrainTerminates ==
    /\ [](lifecycle = "Draining" => drainLeft \in 0..timeout)
    /\ (lifecycle = "Draining") ~> Terminated

\* C18: after a signal received in Listening the process terminates by the
\* clean exit or by the forced shutdown: the drain is left for no other
\* state.
C18_DrainEndsStoppedOrForced ==
    [][(listened /\ lifecycle = "Draining" /\ lifecycle' # "Draining")
            => lifecycle' \in {"Stopped", "Forced"}
      ]_vars

\* C19: in every reachable state every record the store holds has an id field
\* equal to the key it is stored under.
C19_IdEqualsKey ==
    \A k \in DOMAIN datastore : datastore[k].ID = k

\* Both ids are stored and the record at 0 is the one an update of path id 0
\* took from a body whose id is 1 (the only bodies named "Al" carry id 1).
C19_Witness ==
    /\ DOMAIN datastore = {0, 1}
    /\ datastore[0].Name = "Al"
    /\ datastore[1].Name = "Bo"

\* C20: an update answered 200 is not lost to a stale write.  Whenever no
\* request is in flight, the record the store holds at an id for which an
\* update has been answered 200 is the record of the latest such update (the
\* body with the path id; an update stores and answers in one step, so every
\* earlier one has been overwritten by it); and while no update of an id has
\* been answered 200 the record at that id is set only by a create answered
\* 201 with that record.
C20_NoLostUpdate ==
    [][/\ Idle' => \A id \in DOMAIN lastUpdate' : datastore'[id] = lastUpdate'[id]
       /\ \A id \in DOMAIN datastore' \ DOMAIN lastUpdate' :
            (id \notin DOMAIN datastore \/ datastore'[id] # datastore[id]) =>
                \E c \in Conns : /\ Answers(c, "create", StatusCreated)
                                 /\ RespItem(resp'[c]) = datastore'[id]
      ]_vars

====
